---- MODULE Spec2Model ----
(***************************************************************************)
(* Configuration resolution of tarpaulin (src/config/mod.rs): profiles     *)
(* built from command-line arguments and from a tarpaulin.toml document,   *)
(* the overlay of the argument profile onto file profiles (merge), the     *)
(* lazily compiled exclusion patterns (exclude_path) and the relative path *)
(* computation (path_relative_from).                                       *)
(*                                                                         *)
(* A path is its text: a sequence of characters, "/" being the separator.  *)
(* A file name such as "tarpaulin.toml" stands as one character.  A        *)
(* component is the sequence of the characters between two separators.     *)
(* An Option is a sequence of length 0 (None) or 1 (Some).                 *)
(***************************************************************************)
EXTENDS Integers, Sequences, FiniteSets, TLC

VARIABLES confs, last, pin, pout

vars == <<confs, last, pin, pout>>

(***************************************************************************)
(* Bounds                                                                  *)
(***************************************************************************)
\* longest raw exclusion pattern list a merge may build
MaxRaw == 3
\* longest path (in components) given to path_relative_from
MaxPathLen == 3

None == <<>>
Some(x) == <<x>>
IsSome(o) == Len(o) = 1
Unwrap(o) == o[1]

(***************************************************************************)
(* Paths                                                                   *)
(***************************************************************************)
Sep == "/"
RootDir == <<"/">>
CurDir == <<".">>
ParentDir == <<".", ".">>
\* a byte that is not valid UTF-8
NonUtf8 == "<ff>"

\* Path::has_root, which is Path::is_absolute on Unix
is_absolute(p) == p # <<>> /\ p[1] = Sep

is_relative(p) == ~is_absolute(p)

\* the non-empty runs of characters between the separators of a text
RECURSIVE split(_, _, _)
split(rest, piece, pieces) ==
    IF rest = <<>>
    THEN IF piece = <<>> THEN pieces ELSE Append(pieces, piece)
    ELSE IF Head(rest) = Sep
    THEN split(Tail(rest), <<>>, IF piece = <<>> THEN pieces ELSE Append(pieces, piece))
    ELSE split(Tail(rest), Append(piece, Head(rest)), pieces)

NotCurDir(piece) == piece # CurDir

\* Path::components: the root, a leading "." of a relative path, and every
\* piece that is not "."; repeated and trailing separators vanish
components(p) ==
    LET pieces == split(p, <<>>, <<>>)
    IN  (IF is_absolute(p) THEN <<RootDir>> ELSE <<>>)
        \o (IF is_relative(p) /\ pieces # <<>> /\ pieces[1] = CurDir
            THEN <<CurDir>> ELSE <<>>)
        \o SelectSeq(pieces, NotCurDir)

\* PathBuf::push / Path::join: an absolute path replaces the buffer, else a
\* separator is added unless the buffer is empty or ends with one
join(p, q) ==
    IF is_absolute(q) THEN q
    ELSE IF p = <<>> \/ p[Len(p)] = Sep THEN p \o q
    ELSE p \o <<Sep>> \o q

\* PathBuf::from_iter: the components pushed one after the other
RECURSIVE collect(_, _)
collect(buf, comps) ==
    IF comps = <<>> THEN buf ELSE collect(join(buf, Head(comps)), Tail(comps))

\* Path::parent: the text up to the end of the last but one component,
\* None for a path that ends in the root and for the empty path
parent(p) ==
    LET comps == components(p)
        front == SubSeq(comps, 1, Len(comps) - 1)
        cuts == { k \in 0..Len(p) : components(SubSeq(p, 1, k)) = front }
    IN  IF comps = <<>> \/ comps[Len(comps)] = RootDir THEN None
        ELSE Some(SubSeq(p, 1, CHOOSE k \in cuts : \A j \in cuts : k <= j))

RECURSIVE ParentDirs(_)
ParentDirs(n) == IF n = 0 THEN <<>> ELSE <<ParentDir>> \o ParentDirs(n - 1)

\* the loop of path_relative_from over the two component iterators
RECURSIVE relative_loop(_, _, _)
relative_loop(ita, itb, comps) ==
    IF ita = <<>> /\ itb = <<>> THEN Some(comps)
    ELSE IF itb = <<>> THEN Some(comps \o ita)
    ELSE IF ita = <<>> THEN relative_loop(<<>>, Tail(itb), Append(comps, ParentDir))
    ELSE IF comps = <<>> /\ Head(ita) = Head(itb)
        THEN relative_loop(Tail(ita), Tail(itb), comps)
    ELSE IF Head(itb) = CurDir
        THEN relative_loop(Tail(ita), Tail(itb), Append(comps, Head(ita)))
    ELSE IF Head(itb) = ParentDir THEN None
    ELSE Some(comps \o <<ParentDir>> \o ParentDirs(Len(Tail(itb))) \o ita)

\* the loop with a single ".." step however much of base remains
RECURSIVE relative_loop_one_step(_, _, _)
relative_loop_one_step(ita, itb, comps) ==
    IF ita = <<>> /\ itb = <<>> THEN Some(comps)
    ELSE IF itb = <<>> THEN Some(comps \o ita)
    ELSE IF ita = <<>>
        THEN relative_loop_one_step(<<>>, Tail(itb), Append(comps, ParentDir))
    ELSE IF comps = <<>> /\ Head(ita) = Head(itb)
        THEN relative_loop_one_step(Tail(ita), Tail(itb), comps)
    ELSE IF Head(itb) = CurDir
        THEN relative_loop_one_step(Tail(ita), Tail(itb), Append(comps, Head(ita)))
    ELSE IF Head(itb) = ParentDir THEN None
    ELSE Some(comps \o <<ParentDir>> \o ita)

path_relative_from_one_step(path, base) ==
    IF is_absolute(path) # is_absolute(base)
    THEN IF is_absolute(path) THEN Some(path) ELSE None
    ELSE LET comps == relative_loop_one_step(components(path), components(base), <<>>)
         IN  IF comps = None THEN None ELSE Some(collect(<<>>, Unwrap(comps)))

path_relative_from(path, base) ==
    IF is_absolute(path) # is_absolute(base)
    THEN IF is_absolute(path) THEN Some(path) ELSE None
    ELSE LET comps == relative_loop(components(path), components(base), <<>>)
         IN  IF comps = None THEN None ELSE Some(collect(<<>>, Unwrap(comps)))

\* the location a sequence of components designates once its "." and ".."
\* steps are resolved
RECURSIVE resolve_steps(_, _)
resolve_steps(stack, rest) ==
    IF rest = <<>> THEN stack
    ELSE LET c == Head(rest) IN
        IF c = CurDir THEN resolve_steps(stack, Tail(rest))
        ELSE IF c = ParentDir THEN
            IF stack = <<>> \/ stack[Len(stack)] = ParentDir
            THEN resolve_steps(Append(stack, ParentDir), Tail(rest))
            ELSE IF stack[Len(stack)] = RootDir
            THEN resolve_steps(stack, Tail(rest))
            ELSE resolve_steps(SubSeq(stack, 1, Len(stack) - 1), Tail(rest))
        ELSE resolve_steps(Append(stack, c), Tail(rest))

resolve(p) == resolve_steps(<<>>, components(p))

\* Path::to_str: the text itself, None when it is not valid UTF-8
to_str(p) == IF \E i \in 1..Len(p) : p[i] = NonUtf8 THEN None ELSE Some(p)

unwrap_or(o, d) == IF IsSome(o) THEN Unwrap(o) ELSE d

(***************************************************************************)
(* Exclusion patterns                                                      *)
(***************************************************************************)
\* the two kinds of element of a compiled expression: one character taken
\* literally, and ".*"
literal(c) == [kind |-> "literal", c |-> c]
any_star == [kind |-> "any_star", c |-> ""]

\* one raw pattern as a regular expression: "*" becomes ".*", every other
\* character matches itself
regex_char(c) == IF c = "*" THEN any_star ELSE literal(c)

regex_from_excluded(raw) == [i \in 1..Len(raw) |-> regex_char(raw[i])]

regexes_from_excluded(strs) == [i \in 1..Len(strs) |-> regex_from_excluded(strs[i])]

\* the expression matches a prefix of the text; ".*" takes any run of
\* characters without a line feed
RECURSIVE match_here(_, _)
match_here(re, s) ==
    IF re = <<>> THEN TRUE
    ELSE IF Head(re).kind = "any_star"
        THEN \E k \in 0..Len(s) :
                /\ \A j \in 1..k : s[j] # "\n"
                /\ match_here(Tail(re), SubSeq(s, k + 1, Len(s)))
    ELSE s # <<>> /\ Head(re).c = Head(s) /\ match_here(Tail(re), Tail(s))

\* Regex::is_match: the expression matches somewhere in the text
is_match(re, s) == \E i \in 1..(Len(s) + 1) : match_here(re, SubSeq(s, i, Len(s)))

default_manifest == <<".", "/", "Cargo.toml">>

(***************************************************************************)
(* Config                                                                  *)
(***************************************************************************)
Default ==
    [ name |-> "", manifest |-> default_manifest, config |-> None, root |-> None,
      run_ignored |-> FALSE, verbose |-> FALSE, debug |-> FALSE,
      line_coverage |-> TRUE, output_directory |-> <<>>, test_timeout |-> 60,
      run_types |-> <<"Tests">>, packages |-> <<>>, features |-> <<>>,
      generate |-> <<>>, excluded_files |-> <<>>, excluded_files_raw |-> <<>> ]

\* merge with the raw pattern list of other replacing that of self
merge_replacing(self, other) ==
    LET flags ==
            IF other.debug
            THEN [self EXCEPT !.debug = other.debug, !.verbose = other.verbose]
            ELSE IF other.verbose THEN [self EXCEPT !.verbose = other.verbose]
            ELSE self
        located == [flags EXCEPT !.manifest = other.manifest, !.root = other.root]
    IN  IF other.excluded_files_raw # <<>>
        THEN [located EXCEPT
                !.excluded_files_raw = other.excluded_files_raw,
                !.excluded_files = <<>>]
        ELSE located

\* merge that also lets the packages of other override those of self
merge_overriding(self, other) ==
    LET flags ==
            IF other.debug
            THEN [self EXCEPT !.debug = other.debug, !.verbose = other.verbose]
            ELSE IF other.verbose THEN [self EXCEPT !.verbose = other.verbose]
            ELSE self
        located == [flags EXCEPT !.manifest = other.manifest, !.root = other.root,
                                 !.packages = other.packages]
    IN  IF other.excluded_files_raw # <<>>
        THEN [located EXCEPT
                !.excluded_files_raw = @ \o other.excluded_files_raw,
                !.excluded_files = <<>>]
        ELSE located

merge(self, other) ==
    LET flags ==
            IF other.debug
            THEN [self EXCEPT !.debug = other.debug, !.verbose = other.verbose]
            ELSE IF other.verbose THEN [self EXCEPT !.verbose = other.verbose]
            ELSE self
        located == [flags EXCEPT !.manifest = other.manifest, !.root = other.root]
    IN  IF other.excluded_files_raw # <<>>
        THEN [located EXCEPT
                !.excluded_files_raw = @ \o other.excluded_files_raw,
                !.excluded_files = <<>>]
        ELSE located

\* the length comparison taken the wrong way round
compiled_when_longer(self) ==
    IF Len(self.excluded_files) > Len(self.excluded_files_raw)
    THEN regexes_from_excluded(self.excluded_files_raw)
    ELSE self.excluded_files

\* the cache refreshed only while nothing was ever compiled into it
compiled_when_unset(self) ==
    IF self.excluded_files = <<>> /\ self.excluded_files_raw = <<>>
    THEN regexes_from_excluded(self.excluded_files_raw)
    ELSE self.excluded_files

\* the cache of compiled patterns exclude_path matches with
compiled(self) ==
    IF Len(self.excluded_files) # Len(self.excluded_files_raw)
    THEN regexes_from_excluded(self.excluded_files_raw)
    ELSE self.excluded_files

(***************************************************************************)
(* Documents and their parsing                                             *)
(***************************************************************************)
\* a document as the toml deserializer sees it: malformed, or its tables
\* in document order, each with its key and the Config its keys declare
Err == [ok |-> FALSE, val |-> <<>>]
Ok(v) == [ok |-> TRUE, val |-> v]

\* the orders in which a HashMap of n entries may be iterated
Orders(n) == { f \in [1..n -> 1..n] : \A i, j \in 1..n : f[i] = f[j] => i = j }

\* parsing that takes a document without tables for an empty list
parse_config_toml_lenient(buffer) ==
    IF ~buffer.wellformed THEN { Err }
    ELSE { Ok([i \in 1..Len(buffer.tables) |->
                 [buffer.tables[f[i]].conf EXCEPT !.name = buffer.tables[f[i]].key]])
           : f \in Orders(Len(buffer.tables)) }

parse_config_toml(buffer) ==
    IF ~buffer.wellformed THEN { Err }
    ELSE IF buffer.tables = <<>> THEN { Err }
    ELSE { Ok([i \in 1..Len(buffer.tables) |->
                 [buffer.tables[f[i]].conf EXCEPT !.name = buffer.tables[f[i]].key]])
           : f \in Orders(Len(buffer.tables)) }

PatA == <<"a">>
PatStar == <<"*">>
PatSub == <<"*", "/", "b">>
PatDots == <<".", ".">>

DocTwo ==
    [wellformed |-> TRUE,
     tables |-> <<
        [key |-> "a",
         conf |-> [Default EXCEPT !.name = "inner", !.verbose = TRUE,
                                  !.excluded_files_raw = <<PatSub>>,
                                  !.line_coverage = FALSE, !.packages = <<"p">>,
                                  !.test_timeout = 5]],
        [key |-> "b",
         conf |-> [Default EXCEPT !.debug = TRUE, !.excluded_files_raw = <<PatA>>,
                                  !.run_types = <<"Doctests", "Tests">>,
                                  !.root = Some(<<"/", "a">>),
                                  !.manifest = <<"/", "a", "/", "Cargo.toml">>]] >>]

DocOne ==
    [wellformed |-> TRUE,
     tables |-> <<
        [key |-> "all",
         conf |-> [Default EXCEPT !.debug = TRUE, !.verbose = TRUE,
                                  !.run_ignored = TRUE,
                                  !.excluded_files_raw = <<PatStar, PatDots>>,
                                  !.features = <<"f">>, !.generate = <<"Html">>,
                                  !.output_directory = <<"/", "m">>,
                                  !.root = Some(<<"n">>)]] >>]

DocNone == [wellformed |-> TRUE, tables |-> <<>>]

DocBad == [wellformed |-> FALSE, tables |-> <<>>]

Docs == { DocTwo, DocOne, DocNone, DocBad }

(***************************************************************************)
(* Environment: the working directory and the file system                 *)
(***************************************************************************)
\* env::current_dir
Cwd == <<"/", "w">>

\* the directories that exist, each by its canonical text
Dirs ==
    { <<"/">>, <<"/", "w">>, <<"/", "w", "/", "b">>, <<"/", "a">>, <<"/", "e">>,
      <<"/", "m">>, <<"/", "u">> }

\* the files that exist, each by its canonical text
Files ==
    ( <<"/", "w", "/", "tarpaulin.toml">> :> [readable |-> TRUE, doc |-> DocTwo] ) @@
    ( <<"/", "w", "/", ".tarpaulin.toml">> :> [readable |-> TRUE, doc |-> DocOne] ) @@
    ( <<"/", "w", "/", "c.toml">> :> [readable |-> TRUE, doc |-> DocOne] ) @@
    ( <<"/", "a", "/", ".tarpaulin.toml">> :> [readable |-> TRUE, doc |-> DocOne] ) @@
    ( <<"/", "e", "/", "tarpaulin.toml">> :> [readable |-> TRUE, doc |-> DocNone] ) @@
    ( <<"/", "m", "/", "tarpaulin.toml">> :> [readable |-> TRUE, doc |-> DocBad] ) @@
    ( <<"/", "m", "/", ".tarpaulin.toml">> :> [readable |-> TRUE, doc |-> DocOne] ) @@
    ( <<"/", "u", "/", "tarpaulin.toml">> :> [readable |-> FALSE, doc |-> DocOne] )

\* the walk the system makes along the pieces of a path: every step, "."
\* and ".." included, needs a directory to start from, and a name has to
\* be there; None when the walk fails
RECURSIVE walk(_, _)
walk(at, pieces) ==
    IF pieces = <<>> THEN Some(at)
    ELSE IF at \notin Dirs THEN None
    ELSE IF Head(pieces) = CurDir THEN walk(at, Tail(pieces))
    ELSE IF Head(pieces) = ParentDir
        THEN walk(unwrap_or(parent(at), at), Tail(pieces))
    ELSE IF join(at, Head(pieces)) \in Dirs \cup DOMAIN Files
        THEN walk(join(at, Head(pieces)), Tail(pieces))
    ELSE None

\* the entry a path leads to: the empty path leads nowhere, and a path
\* that ends with a separator leads to a directory only
lookup(p) ==
    LET found == walk(IF is_absolute(p) THEN <<Sep>> ELSE Cwd, split(p, <<>>, <<>>))
    IN  IF p = <<>> THEN None
        ELSE IF IsSome(found) /\ p[Len(p)] = Sep /\ Unwrap(found) \notin Dirs THEN None
        ELSE found

\* Path::canonicalize: the canonical text of the entry, None when it fails
canonicalize(p) == lookup(p)

\* Path::exists
exists(p) == IsSome(lookup(p))

\* None stands for the panic of an unwrap on a failed canonicalize
get_base_dir(self) ==
    IF IsSome(self.root)
    THEN IF is_absolute(Unwrap(self.root)) THEN Some(Unwrap(self.root))
         ELSE canonicalize(join(Cwd, Unwrap(self.root)))
    ELSE Some(Cwd)

strip_base_dir(self, path) ==
    LET rel == path_relative_from(path, Unwrap(get_base_dir(self)))
    IN  IF IsSome(rel) THEN Unwrap(rel) ELSE path

\* the profile after the query (its cache refreshed) and the outcome
exclude_path(self, path) ==
    LET cached == [self EXCEPT !.excluded_files = compiled(self)]
    IN  IF get_base_dir(cached) = None
        THEN [conf |-> cached, result |-> "panic"]
        ELSE LET project == strip_base_dir(cached, path)
                 text == unwrap_or(to_str(project), <<>>)
             IN  [conf |-> cached,
                  result |-> IF \E i \in 1..Len(cached.excluded_files) :
                                    is_match(cached.excluded_files[i], text)
                             THEN "true" ELSE "false"]

\* File::open and read_to_end succeed on a readable file only
load_config_file(file) ==
    LET found == lookup(file) IN
    IF found = None THEN { Err }
    ELSE IF Unwrap(found) \notin DOMAIN Files THEN { Err }
    ELSE IF ~Files[Unwrap(found)].readable THEN { Err }
    ELSE { IF res.ok
           THEN Ok([i \in 1..Len(res.val) |-> [res.val[i] EXCEPT !.config = Some(file)]])
           ELSE res
           : res \in parse_config_toml(Files[Unwrap(found)].doc) }

check_path_for_configs(path) ==
    LET path_1 == join(path, <<"tarpaulin.toml">>)
        path_2 == join(path, <<".tarpaulin.toml">>)
    IN  IF exists(path_1) THEN Some(path_1)
        ELSE IF exists(path_2) THEN Some(path_2)
        ELSE None

check_for_configs(self) ==
    IF IsSome(self.root) THEN check_path_for_configs(Unwrap(self.root))
    ELSE IF IsSome(parent(self.manifest))
        THEN check_path_for_configs(Unwrap(parent(self.manifest)))
    ELSE None

\* the resolution without its fallback for an empty list of file profiles
get_config_vec_unguarded(file_configs, backup) ==
    IF ~file_configs.ok THEN <<backup>>
    ELSE [i \in 1..Len(file_configs.val) |-> merge(file_configs.val[i], backup)]

get_config_vec(file_configs, backup) ==
    IF ~file_configs.ok THEN <<backup>>
    ELSE LET merged == [i \in 1..Len(file_configs.val) |->
                            merge(file_configs.val[i], backup)]
         IN  IF merged = <<>> THEN <<backup>> ELSE merged

(***************************************************************************)
(* Command-line arguments                                                  *)
(***************************************************************************)
NoArgs ==
    [ debug |-> FALSE, verbose |-> FALSE, exclude_files |-> <<>>,
      manifest |-> default_manifest, root |-> None, ignore_config |-> FALSE,
      config |-> None, ignored |-> FALSE, line |-> TRUE, output_dir |-> Cwd,
      timeout |-> 60, run_types |-> <<"Tests">>, packages |-> <<>>,
      features |-> <<>>, out |-> <<>> ]

ArgsSet ==
    { NoArgs,
      [NoArgs EXCEPT !.debug = TRUE, !.exclude_files = <<PatA>>],
      [NoArgs EXCEPT !.verbose = TRUE, !.root = Some(<<"/", "a">>),
                     !.exclude_files = <<PatStar>>, !.packages = <<"q">>,
                     !.line = FALSE],
      [NoArgs EXCEPT !.ignore_config = TRUE, !.exclude_files = <<PatSub>>],
      [NoArgs EXCEPT !.config = Some(<<"/", "w", "/", "c.toml">>), !.ignored = TRUE],
      [NoArgs EXCEPT !.config = Some(<<"c.toml">>), !.timeout = 5],
      [NoArgs EXCEPT !.config = Some(<<"x.toml">>)],
      [NoArgs EXCEPT !.config = Some(<<"n", "/", ".", ".", "/", "c.toml">>)],
      [NoArgs EXCEPT !.config = Some(<<"/", "w", "/", "x.toml">>)],
      [NoArgs EXCEPT !.root = Some(<<"/", "e">>)],
      [NoArgs EXCEPT !.root = Some(<<"/", "m">>), !.out = <<"Xml">>],
      [NoArgs EXCEPT !.root = Some(<<"/", "u">>)],
      [NoArgs EXCEPT !.root = Some(<<"b">>), !.exclude_files = <<PatA>>],
      [NoArgs EXCEPT !.root = Some(<<"n">>), !.exclude_files = <<PatA>>],
      [NoArgs EXCEPT !.root = Some(<<"n", "/", ".", ".">>)],
      [NoArgs EXCEPT !.root = Some(<<"c.toml">>), !.exclude_files = <<PatA>>],
      [NoArgs EXCEPT !.manifest = <<"/", "a", "/", "Cargo.toml">>,
                     !.features = <<"g">>],
      [NoArgs EXCEPT !.manifest = <<"/">>] }

\* the Config built from the arguments alone
args_config(args) ==
    [ name |-> "", manifest |-> args.manifest, config |-> None, root |-> args.root,
      run_ignored |-> args.ignored, verbose |-> (args.verbose \/ args.debug),
      debug |-> args.debug, line_coverage |-> args.line,
      output_directory |-> args.output_dir, test_timeout |-> args.timeout,
      run_types |-> args.run_types, packages |-> args.packages,
      features |-> args.features, generate |-> args.out,
      excluded_files |-> regexes_from_excluded(args.exclude_files),
      excluded_files_raw |-> args.exclude_files ]

\* ConfigWrapper::from: the sets it may return, or the panic of an unwrap
Returned(c) == [panic |-> FALSE, confs |-> c]
Panicked == [panic |-> TRUE, confs |-> <<>>]

from_args(args) ==
    LET args_conf == args_config(args) IN
    IF args.ignore_config THEN { Returned(<<args_conf>>) }
    ELSE IF IsSome(args.config) THEN
        LET given == Unwrap(args.config)
            path == IF is_relative(given)
                    THEN canonicalize(join(Cwd, given))
                    ELSE Some(given)
        IN  IF path = None THEN { Panicked }
            ELSE { Returned(get_config_vec(fc, args_conf))
                   : fc \in load_config_file(Unwrap(path)) }
    ELSE IF IsSome(check_for_configs(args_conf))
        THEN { Returned(get_config_vec(fc, args_conf))
               : fc \in load_config_file(Unwrap(check_for_configs(args_conf))) }
    ELSE { Returned(<<args_conf>>) }

\* what a caller may hand to get_config_vec as the loaded file profiles
FileConfigs == { Err, Ok(<<>>) } \cup UNION { parse_config_toml(d) : d \in Docs }

\* paths asked of exclude_path and strip_base_dir
QueryPaths ==
    { <<"a">>, <<"a", "/", "b">>, <<"/", "w", "/", "a">>, <<"/", "a", "/", "b">>,
      <<"c">>, <<NonUtf8>>, <<"/", "w", "/", "b", "/", ".", ".">>,
      <<"a", "/">>, <<"a", "/", "/", "b">> }

\* paths handed to load_config_file
LoadPaths ==
    { <<"/", "w", "/", "c.toml">>, <<"c.toml">>, <<"/", "w", "/", "tarpaulin.toml">>,
      <<"/", "m", "/", "tarpaulin.toml">>, <<"/", "e", "/", "tarpaulin.toml">>,
      <<"/", "u", "/", "tarpaulin.toml">>, <<"x.toml">>,
      <<"n", "/", ".", ".", "/", "c.toml">>, <<"c.toml", "/", ".", ".", "/", "c.toml">>,
      <<"/", "w">>, <<>> }

(***************************************************************************)
(* State machine of the profiles a caller holds                           *)
(***************************************************************************)
Init ==
    /\ confs = <<>>
    /\ last = [op |-> "init", result |-> "ok"]
    /\ pin = <<>>
    /\ pout = <<>>

Alive == last.result # "panic"

From(args) ==
    /\ Alive
    /\ \E out \in from_args(args) :
        /\ confs' = out.confs
        /\ last' = [op |-> "from", args |-> args,
                    result |-> IF out.panic THEN "panic" ELSE "ok"]
    /\ UNCHANGED <<pin, pout>>

ParseConfigToml(doc) ==
    /\ Alive
    /\ \E res \in parse_config_toml(doc) :
        /\ confs' = res.val
        /\ last' = [op |-> "parse_config_toml", doc |-> doc,
                    result |-> IF res.ok THEN "ok" ELSE "err"]
    /\ UNCHANGED <<pin, pout>>

GetConfigVec(file_configs, args) ==
    /\ Alive
    /\ confs' = get_config_vec(file_configs, args_config(args))
    /\ last' = [op |-> "get_config_vec", file_configs |-> file_configs,
                backup |-> args_config(args), result |-> "ok"]
    /\ UNCHANGED <<pin, pout>>

LoadConfigFile(file) ==
    /\ Alive
    /\ \E res \in load_config_file(file) :
        /\ confs' = res.val
        /\ last' = [op |-> "load_config_file", file |-> file,
                    result |-> IF res.ok THEN "ok" ELSE "err"]
    /\ UNCHANGED <<pin, pout>>

Merge(i, j) ==
    /\ Alive
    /\ i # j
    /\ Len(merge(confs[i], confs[j]).excluded_files_raw) <= MaxRaw
    /\ confs' = [confs EXCEPT ![i] = merge(confs[i], confs[j])]
    /\ last' = [op |-> "merge", target |-> i, source |-> j, result |-> "ok"]
    /\ UNCHANGED <<pin, pout>>

ExcludePath(i, path) ==
    /\ Alive
    /\ confs' = [confs EXCEPT ![i] = exclude_path(confs[i], path).conf]
    /\ last' = [op |-> "exclude_path", target |-> i, path |-> path,
                result |-> exclude_path(confs[i], path).result]
    /\ UNCHANGED <<pin, pout>>

\* strip_base_dir asked of a profile: it panics with get_base_dir, else it
\* returns the relative path (rel) or falls back to path
StripBaseDir(i, path) ==
    /\ Alive
    /\ confs' = confs
    /\ last' = IF get_base_dir(confs[i]) = None
               THEN [op |-> "strip_base_dir", target |-> i, path |-> path,
                     result |-> "panic"]
               ELSE [op |-> "strip_base_dir", target |-> i, path |-> path,
                     result |-> "ok",
                     rel |-> path_relative_from(path, Unwrap(get_base_dir(confs[i]))),
                     value |-> strip_base_dir(confs[i], path)]
    /\ UNCHANGED <<pin, pout>>

Next ==
    \/ \E args \in ArgsSet : From(args)
    \/ \E doc \in Docs : ParseConfigToml(doc)
    \/ \E file \in LoadPaths : LoadConfigFile(file)
    \/ \E fc \in FileConfigs, args \in ArgsSet : GetConfigVec(fc, args)
    \/ \E i, j \in DOMAIN confs : Merge(i, j)
    \/ \E i \in DOMAIN confs, path \in QueryPaths : ExcludePath(i, path)
    \/ \E i \in DOMAIN confs, path \in QueryPaths : StripBaseDir(i, path)

Spec == Init /\ [][Next]_vars

(***************************************************************************)
(* path_relative_from applied to every pair of bounded paths              *)
(***************************************************************************)
Normals == { <<"a">>, <<"b">> }

\* the sequences Path::components can yield, up to MaxPathLen components
ComponentSeqs ==
    UNION { { p \in [1..n -> Normals \cup {RootDir, CurDir, ParentDir}] :
                \A i \in 1..n : (p[i] \in {RootDir, CurDir}) => i = 1 }
            : n \in 0..MaxPathLen }

\* their texts, and those texts with a separator at the end
Paths ==
    { collect(<<>>, c) : c \in ComponentSeqs }
    \cup { collect(<<>>, c) \o <<Sep>> : c \in ComponentSeqs \ { <<>>, <<RootDir>> } }

InitPath ==
    /\ confs = <<>>
    /\ last = [op |-> "init", result |-> "ok"]
    /\ pin \in { [path |-> p, base |-> b] : p \in Paths, b \in Paths }
    /\ pout = <<>>

PathRelativeFrom ==
    /\ pout = <<>>
    /\ pout' = <<path_relative_from(pin.path, pin.base)>>
    /\ UNCHANGED <<confs, last, pin>>

NextPath == PathRelativeFrom

SpecPath == InitPath /\ [][NextPath]_vars

(***************************************************************************)
(* Properties                                                              *)
(***************************************************************************)
Raw(i) == confs[i].excluded_files_raw
Cache(i) == confs[i].excluded_files

\* C1: a merge never turns a flag of the target off: debug stays true when
\* it was true, verbose stays true when it was true, whatever the source
\* holds.
C1_MergeNeverTurnsOff ==
    [][last'.op = "merge" =>
        /\ confs[last'.target].debug => confs'[last'.target].debug
        /\ confs[last'.target].verbose => confs'[last'.target].verbose]_vars

\* the text exclude_path matches the patterns of profile i against
QueryText(i, path) == unwrap_or(to_str(strip_base_dir(confs[i], path)), <<>>)

\* C2: an exclude_path query never decides with a stale cache: after the
\* query the cache is the compilation of the raw pattern list as it stands,
\* and the answer is that of the whole raw list, patterns appended by
\* earlier merges included.
C2_NeverStale ==
    last.op = "exclude_path" =>
        /\ Cache(last.target) = regexes_from_excluded(Raw(last.target))
        /\ last.result # "panic" =>
            (last.result = "true" <=>
                \E k \in 1..Len(Raw(last.target)) :
                    is_match(regex_from_excluded(Raw(last.target)[k]),
                             QueryText(last.target, last.path)))

C2_Witness ==
    /\ last.op = "exclude_path"
    /\ Len(Raw(last.target)) >= 3
    /\ last.result = "true"
    /\ ~is_match(regex_from_excluded(Raw(last.target)[1]),
                 QueryText(last.target, last.path))

\* C3: once an exclude_path query has returned, the cache holds as many
\* compiled patterns as the profile has raw patterns.
C3_CacheLength ==
    (last.op = "exclude_path" /\ last.result # "panic") =>
        Len(Cache(last.target)) = Len(Raw(last.target))

C3_Witness ==
    /\ last.op = "exclude_path"
    /\ last.result # "panic"
    /\ Len(Raw(last.target)) >= 2
    /\ IsSome(confs[last.target].config)

\* C4: a merge appends the raw patterns of the source, in their order, to
\* those of the target and leaves the list of the source as it was.
C4_MergeAppends ==
    [][last'.op = "merge" =>
        /\ confs'[last'.target].excluded_files_raw =
              confs[last'.target].excluded_files_raw
                 \o confs[last'.source].excluded_files_raw
        /\ confs'[last'.source].excluded_files_raw =
              confs[last'.source].excluded_files_raw]_vars

C4_Witness ==
    /\ last.op = "merge"
    /\ Len(Raw(last.source)) = 1
    /\ Len(Raw(last.target)) = 2
    /\ Raw(last.target)[2] = Raw(last.source)[1]
    /\ Raw(last.target)[1] # Raw(last.source)[1]

\* the fields a merge has no business with
Kept(c) ==
    [ name |-> c.name, config |-> c.config, run_ignored |-> c.run_ignored,
      line_coverage |-> c.line_coverage, output_directory |-> c.output_directory,
      test_timeout |-> c.test_timeout, run_types |-> c.run_types,
      packages |-> c.packages, features |-> c.features, generate |-> c.generate ]

\* the tables of the document stored in a file
TablesOf(file) == Files[Unwrap(lookup(file))].doc.tables

\* a profile resolved from a file holds what its table declares
KeepsDeclared(c) ==
    IsSome(c.config) =>
        \E k \in 1..Len(TablesOf(Unwrap(c.config))) :
            LET table == TablesOf(Unwrap(c.config))[k]
            IN  Kept(c) = Kept([table.conf EXCEPT !.name = table.key,
                                                   !.config = c.config])

\* C5: a merge leaves every field of the target other than debug, verbose,
\* manifest, root, the raw patterns and the cache as it was, also when the
\* source holds other values; so the profiles get_config_vec returns keep
\* the values of the file profiles it was given, and every profile of a set
\* resolved from a file keeps the values its table declares.
C5_MergeFrame ==
    /\ [][last'.op = "merge" =>
            Kept(confs'[last'.target]) = Kept(confs[last'.target])]_vars
    /\ [](last.op = "get_config_vec" /\ last.file_configs.ok =>
            \A i \in 1..Len(last.file_configs.val) :
                Kept(confs[i]) = Kept(last.file_configs.val[i]))
    /\ [](last.op = "from" => \A i \in DOMAIN confs : KeepsDeclared(confs[i]))

C5_Witness ==
    /\ last.op = "from"
    /\ last.args.packages # <<>>
    /\ \E i \in DOMAIN confs :
        /\ IsSome(confs[i].config)
        /\ confs[i].packages # last.args.packages
        /\ confs[i].line_coverage # last.args.line
        /\ confs[i].root = last.args.root

\* C6: the resolved set is never empty: get_config_vec returns the argument
\* profile alone, unmodified, when the file profiles are an error or an
\* empty list, and otherwise one profile per file profile, each overlaid
\* once with the argument profile; every resolution from arguments that
\* returns, returns at least one profile.
C6_NeverEmpty ==
    /\ last.op = "get_config_vec" =>
        /\ confs # <<>>
        /\ (~last.file_configs.ok \/ last.file_configs.val = <<>>)
              => confs = <<last.backup>>
        /\ (last.file_configs.ok /\ last.file_configs.val # <<>>) =>
              /\ Len(confs) = Len(last.file_configs.val)
              /\ \A i \in 1..Len(confs) :
                    confs[i] = merge(last.file_configs.val[i], last.backup)
    /\ (last.op = "from" /\ last.result # "panic") => Len(confs) >= 1

C6_Witness ==
    /\ last.op = "get_config_vec"
    /\ last.file_configs = Ok(<<>>)
    /\ last.backup.excluded_files_raw # <<>>
    /\ confs = <<last.backup>>

\* C7: parse_config_toml fails exactly when the document is malformed or
\* has no table; when it succeeds it returns one profile per table, named
\* by the key of its table whatever name the table declares.
C7_ParseResult ==
    last.op = "parse_config_toml" =>
        /\ last.result = "err" <=>
              (~last.doc.wellformed \/ last.doc.tables = <<>>)
        /\ last.result = "ok" =>
              /\ Len(confs) = Len(last.doc.tables)
              /\ \A k \in 1..Len(last.doc.tables) :
                    \E i \in 1..Len(confs) :
                        /\ confs[i] = [last.doc.tables[k].conf
                                          EXCEPT !.name = last.doc.tables[k].key]
                        /\ \A j \in 1..Len(confs) :
                              confs[j].name = last.doc.tables[k].key => j = i

C7_Witness ==
    /\ last.op = "parse_config_toml"
    /\ last.result = "ok"
    /\ \E k \in 1..Len(last.doc.tables), i \in 1..Len(confs) :
        /\ last.doc.tables[k].conf.name # ""
        /\ last.doc.tables[k].conf.name # last.doc.tables[k].key
        /\ confs[i].name = last.doc.tables[k].key

\* C8: exclude_path always returns a boolean, never panics, and answers
\* false for a path that has no UTF-8 text whatever the patterns.
C8_ExcludeNeverFails ==
    last.op = "exclude_path" =>
        /\ last.result \in {"true", "false"}
        /\ to_str(last.path) = None => last.result = "false"

\* path_relative_from walked the components of its two arguments
Walked ==
    /\ pout # <<>>
    /\ is_absolute(pin.path) = is_absolute(pin.base)

\* C9: a relative result of path_relative_from for two paths that are both
\* absolute or both relative leads from base to path: base followed by the
\* result designates the location path designates.
C9_LeadsToPath ==
    (Walked /\ IsSome(pout[1]) /\ is_relative(Unwrap(pout[1]))) =>
        resolve(join(pin.base, Unwrap(pout[1]))) = resolve(pin.path)

\* the number of leading components path and base have in common
RECURSIVE shared_prefix(_, _)
shared_prefix(p, b) ==
    IF p = <<>> \/ b = <<>> \/ Head(p) # Head(b) THEN 0
    ELSE 1 + shared_prefix(Tail(p), Tail(b))

\* C10: when base holds a ".." component anywhere after the prefix it
\* shares with path, path_relative_from answers None.
C10_ParentDirRejected ==
    (Walked /\ \E k \in 1..Len(components(pin.base)) :
                  /\ k > shared_prefix(components(pin.path), components(pin.base))
                  /\ components(pin.base)[k] = ParentDir)
        => pout[1] = None

\* one ".." step for each component of base after the shared prefix, then
\* the components of path after it, as a path
BackThenDown(path, base) ==
    LET p == components(path)
        b == components(base)
        n == shared_prefix(p, b)
    IN  collect(<<>>, ParentDirs(Len(b) - n) \o SubSeq(p, n + 1, Len(p)))

NoParentDir(base) ==
    \A k \in 1..Len(components(base)) : components(base)[k] # ParentDir

\* C11 as stated: for path and base both absolute or both relative and a
\* base without "..", the result is one ".." step for each component of
\* base after the longest shared prefix followed by the components of path
\* after that prefix.
C11_BackThenDown ==
    (Walked /\ NoParentDir(pin.base)) =>
        pout[1] = Some(BackThenDown(pin.path, pin.base))

\* base begins with a "." that a non-empty path does not begin with
UnsharedCurDir(path, base) ==
    /\ components(base) # <<>> /\ components(base)[1] = CurDir
    /\ components(path) # <<>> /\ components(path)[1] # CurDir

\* C11 amended: the same, for a base that moreover does not begin with a
\* "." component which a non-empty path does not share.
C11_BackThenDownNoCurDir ==
    (Walked /\ NoParentDir(pin.base) /\ ~UnsharedCurDir(pin.path, pin.base)) =>
        pout[1] = Some(BackThenDown(pin.path, pin.base))

C11_Witness ==
    /\ Walked
    /\ NoParentDir(pin.base)
    /\ Len(components(pin.base)) = 3
    /\ Len(components(pin.path)) = 3
    /\ components(pin.base)[1] = CurDir
    /\ shared_prefix(components(pin.path), components(pin.base)) = 2
    /\ pout[1] = Some(ParentDir \o <<Sep>> \o components(pin.path)[3])

\* C12: the profiles of a resolved set are in the order of the tables of
\* the document: parse_config_toml returns them in document order, and so
\* does get_config_vec after it and the resolution from arguments.
C12_DocumentOrder ==
    /\ (last.op = "parse_config_toml" /\ last.result = "ok") =>
          \A i \in 1..Len(confs) : confs[i].name = last.doc.tables[i].key
    /\ (last.op = "get_config_vec" /\ last.file_configs.ok
            /\ last.file_configs.val # <<>>) =>
          \A i \in 1..Len(confs) : confs[i].name = last.file_configs.val[i].name
    /\ last.op = "from" =>
          \A i \in 1..Len(confs) :
              IsSome(confs[i].config) =>
                  confs[i].name = TablesOf(Unwrap(confs[i].config))[i].key

\* C13: when exactly one of path and base is absolute, path_relative_from
\* returns path if path is the absolute one and None otherwise, and
\* strip_base_dir falls back to path: strip_base_dir always returns a path.
C13_StripAlwaysReturns ==
    last.op = "strip_base_dir" =>
        /\ last.result = "ok"
        /\ (is_absolute(last.path)
                # is_absolute(Unwrap(get_base_dir(confs[last.target])))) =>
              /\ last.rel = IF is_absolute(last.path) THEN Some(last.path) ELSE None
              /\ last.value = last.path

====
